---- MODULE Spec2Model ----
(***************************************************************************)
(* Model of the launcher's device/session bring-up (launch_game.py):       *)
(* main, check_updates, randomizer, get_device, check_device_state,        *)
(* install_frida, start_local_server, start_frida_server,                  *)
(* start_frida_hook and script_manager.                                    *)
(*                                                                         *)
(* A Python dict is a function whose DOMAIN is the set of its keys; a      *)
(* Python str that the code parses or rewrites is a sequence of            *)
(* one-character strings (operator input) or of tokens (script text).      *)
(***************************************************************************)
EXTENDS Integers, Sequences, FiniteSets, TLC

(***************************************************************************)
(* Bounds of the model.                                                    *)
(***************************************************************************)
MaxDevices == 2      \* longest enumeration returned by client.devices()
MaxRetries == 2      \* empty enumerations before a device shows up
MaxInputs == 3       \* rejected operator inputs in one selection loop
MaxScripts == 1      \* optional scripts in data/scripts besides _.js
FastDump == 10       \* seconds taken by a quick dumpsys invocation
SlowDump == 20      \* seconds taken by a slow dumpsys invocation

(***************************************************************************)
(* Program constants.                                                      *)
(***************************************************************************)
SettleDelay == 5
RebootTimeout == 30
MainDefaultPort == 8443
ScriptDefaultPort == 8080

(***************************************************************************)
(* Python dict helpers.                                                    *)
(***************************************************************************)
None == "<None>"
EmptyDict == [x \in {} |-> 0]
Has(d, k) == k \in DOMAIN d
Put(d, k, v) == [x \in (DOMAIN d) \cup {k} |-> IF x = k THEN v ELSE d[x]]
Del(d, k) == [x \in (DOMAIN d) \ {k} |-> d[x]]
\* d[k1][k2] = v on a dict of dicts
Put2(d, k1, k2, v) == Put(d, k1, Put(d[k1], k2, v))
\* "if k not in d: d[k] = v"
SetDefault(d, k, v) == IF Has(d, k) THEN d ELSE Put(d, k, v)
SetDefault2(d, k1, k2, v) == Put(d, k1, SetDefault(d[k1], k2, v))
\* truth value of a str-or-None
Truthy(v) == v # None /\ v # ""

(***************************************************************************)
(* Operator input: int(input()) and input().lower().                       *)
(***************************************************************************)
Digits == <<"0", "1", "2", "3", "4", "5", "6", "7", "8", "9">>
IsDigit(ch) == \E i \in 1..10 : Digits[i] = ch
DigitVal(ch) == (CHOOSE i \in 1..10 : Digits[i] = ch) - 1

RECURSIVE LStrip(_)
LStrip(s) == IF s # <<>> /\ Head(s) = " " THEN LStrip(Tail(s)) ELSE s

RECURSIVE RStrip(_)
RStrip(s) ==
    IF s # <<>> /\ s[Len(s)] = " " THEN RStrip(SubSeq(s, 1, Len(s) - 1)) ELSE s

Strip(s) == RStrip(LStrip(s))

HasSign(s) == s # <<>> /\ Head(s) \in {"+", "-"}
Unsigned(s) == IF HasSign(s) THEN Tail(s) ELSE s

RECURSIVE DecVal(_)
DecVal(s) ==
    IF s = <<>> THEN 0
    ELSE 10 * DecVal(SubSeq(s, 1, Len(s) - 1)) + DigitVal(s[Len(s)])

\* int(s) raises ValueError
IntRaises(s) ==
    LET body == Unsigned(Strip(s))
    IN  body = <<>> \/ \E i \in 1..Len(body) : ~IsDigit(body[i])

\* int(s) when it does not raise
IntVal(s) ==
    LET t == Strip(s)
    IN  IF HasSign(t) /\ Head(t) = "-" THEN 0 - DecVal(Unsigned(t))
        ELSE DecVal(Unsigned(t))

LowerCh(ch) ==
    CASE ch = "Y" -> "y"
      [] ch = "E" -> "e"
      [] ch = "S" -> "s"
      [] ch = "N" -> "n"
      [] ch = "O" -> "o"
      [] OTHER -> ch
Lower(s) == [i \in 1..Len(s) |-> LowerCh(s[i])]

Inputs ==
    { <<"1">>, <<"2">>, <<"3">>, <<"0">>, <<"9", "9">>, <<"a", "b", "c">>,
      <<>>, <<"-", "1">>, <<" ", "2", " ">>, <<"2", "a">>, <<"+", "1">> }

Answers ==
    { <<"y">>, <<"Y">>, <<"Y", "e", "s">>, <<"n">>, <<>>, <<"y", "e">> }

(***************************************************************************)
(* Devices.                                                                *)
(***************************************************************************)
SerialPool == <<"emulator-5554", "127.0.0.1:7555", "127.0.0.1:5555", "127.0.0.1:62001">>
Serials == { SerialPool[i] : i \in 1..MaxDevices }

RECURSIVE SeqsUpTo(_)
\* duplicate-free sequences of serials of length at most n
SeqsUpTo(n) ==
    IF n = 0 THEN {<<>>}
    ELSE LET prev == SeqsUpTo(n - 1)
         IN  prev \cup { Append(s, x) : s \in {p \in prev : Len(p) = n - 1},
                                        x \in Serials }

DeviceLists ==
    { s \in SeqsUpTo(MaxDevices) :
        \A i, j \in 1..Len(s) : i # j => s[i] # s[j] }

(***************************************************************************)
(* Configuration documents found in config/config.json at start-up.        *)
(***************************************************************************)
NoFile == [missing |-> TRUE]
\* the file between open("w") and the end of json.dump: empty, or a proper
\* prefix of the text of the new document
Truncated == [truncated |-> TRUE]
\* Each section of the document: absent, complete, and partial variants.
VersionParts ==
    << EmptyDict,
       [version |-> [android |-> [resVersion |-> "v2", clientVersion |-> "v2"]],
        networkConfig |-> [cn |-> [content |->
             [funcVer |-> "f2", configs |-> [f2 |-> "net"]]]]],
       [version |-> [android |-> [resVersion |-> "v1", clientVersion |-> "v2"]],
        networkConfig |-> [cn |-> [content |->
             [funcVer |-> "f1", configs |-> [f1 |-> "net"]]]]] >>

UserParts ==
    << EmptyDict,
       [userConfig |-> [defaultDevice |-> "emulator-5554",
                        activityMinStartTs |-> 5, activityMaxStartTs |-> 7]],
       [userConfig |-> EmptyDict],
       [userConfig |-> [defaultDevice |-> "10.0.0.9:5555"]] >>

ServerParts ==
    << EmptyDict,
       [server |-> [host |-> "10.0.0.2", port |-> 9000, noProxy |-> TRUE]],
       [server |-> EmptyDict],
       [server |-> [host |-> "10.0.0.2", noProxy |-> FALSE]],
       [server |-> [host |-> "@@@DOCTORATE_PORT@@@", port |-> 9000,
                    noProxy |-> FALSE]] >>

ScriptParts ==
    << EmptyDict,
       [scriptConfig |-> ("a.js" :> TRUE)],
       [scriptConfig |-> EmptyDict],
       [scriptConfig |-> ("_.js" :> FALSE @@ "a.js" :> FALSE)] >>

\* union of dicts with disjoint keys
Merge(d, e) ==
    [x \in (DOMAIN d) \cup (DOMAIN e) |-> IF x \in DOMAIN d THEN d[x] ELSE e[x]]

\* Choices of one variant per section: the empty document (all 1) and the
\* documents that differ from the complete one (all 2) in at most one section.
SectionChoices ==
    { f \in [1..4 -> 1..5] :
        /\ f[1] <= Len(VersionParts)
        /\ f[2] <= Len(UserParts)
        /\ f[3] <= Len(ServerParts)
        /\ f[4] <= Len(ScriptParts)
        /\ \/ \A i \in 1..4 : f[i] = 1
           \/ Cardinality({ i \in 1..4 : f[i] # 2 }) <= 1 }

InitConfigs ==
    { Merge(Merge(VersionParts[f[1]], UserParts[f[2]]),
            Merge(ServerParts[f[3]], ScriptParts[f[4]])) : f \in SectionChoices }

(***************************************************************************)
(* check_updates: version and network-configuration polling.               *)
(***************************************************************************)
RemoteVersion == [resVersion |-> "v2", clientVersion |-> "v2"]
RemoteFuncVer == "f2"
RequestOutcomes == {"ok", "timeout", "error"}
ActivityStartTs == 1000
DefaultNetworkConfigs == [x \in {""} |-> "net"]

VersionDefaults(c) ==
    LET c1 == SetDefault(c, "version", EmptyDict)
        c2 == SetDefault2(c1, "version", "android", EmptyDict)
        a1 == SetDefault(c2["version"]["android"], "resVersion", "")
        a2 == SetDefault(a1, "clientVersion", "")
    IN  Put2(c2, "version", "android", a2)

NetworkDefaults(c) ==
    LET c1 == SetDefault(c, "networkConfig", EmptyDict)
        c2 == SetDefault2(c1, "networkConfig", "cn", EmptyDict)
        cn == SetDefault(c2["networkConfig"]["cn"], "content", EmptyDict)
        ct == SetDefault(cn["content"], "funcVer", "")
    IN  Put2(c2, "networkConfig", "cn", Put(cn, "content", ct))

Content(c) == c["networkConfig"]["cn"]["content"]
WithContent(c, ct) ==
    Put2(c, "networkConfig", "cn", Put(c["networkConfig"]["cn"], "content", ct))

\* lines 243-252
ApplyVersion(c, old_res_ver, old_client_ver, version) ==
    LET a0 == c["version"]["android"]
        a1 == IF version.resVersion # old_res_ver
              THEN Put(a0, "resVersion", version.resVersion) ELSE a0
        a2 == IF version.clientVersion # old_client_ver
              THEN Put(a1, "clientVersion", version.clientVersion) ELSE a1
    IN  Put2(c, "version", "android", a2)

\* lines 261-288; raised is the KeyError of configs[old_func_ver]
ApplyNetwork(c, old_func_ver, func_version) ==
    IF func_version = old_func_ver THEN [config |-> c, raised |-> FALSE]
    ELSE LET ct1 == Put(Content(c), "funcVer", func_version)
             ct2 == SetDefault(ct1, "configs", DefaultNetworkConfigs)
             cfgs == ct2["configs"]
         IN  IF ~Has(cfgs, old_func_ver)
             THEN [config |-> WithContent(c, ct2), raised |-> TRUE]
             ELSE [config |->
                      WithContent(c, Put(ct2, "configs",
                          Del(Put(cfgs, func_version, cfgs[old_func_ver]),
                              old_func_ver))),
                   raised |-> FALSE]

\* lines 361-365
UpdateActivity(c) ==
    LET c1 == SetDefault(c, "userConfig", EmptyDict)
        c2 == SetDefault2(c1, "userConfig", "activityStartTs", 0)
    IN  Put2(c2, "userConfig", "activityStartTs", ActivityStartTs)

\* check_updates(config_file, timeout) for the outcomes r1, r2 of its two
\* requests and uc, ua of update_client and update_activity
CheckUpdatesResult(c, r1, r2, uc, ua) ==
    LET c0 == NetworkDefaults(VersionDefaults(c))
        old_res_ver == c0["version"]["android"]["resVersion"]
        old_client_ver == c0["version"]["android"]["clientVersion"]
        old_func_ver == Content(c0)["funcVer"]
        c1 == ApplyVersion(c0, old_res_ver, old_client_ver, RemoteVersion)
        net == ApplyNetwork(c1, old_func_ver, RemoteFuncVer)
        fetched == r1 = "ok"
        res_version_mismatch == fetched /\ RemoteVersion.resVersion # old_res_ver
        client_version_mismatch ==
            fetched /\ RemoteVersion.clientVersion # old_client_ver
        c2 == IF ~fetched THEN c0 ELSE IF r2 = "ok" THEN net.config ELSE c1
        inTry == r1 = "error" \/ (fetched /\ r2 = "error")
                    \/ (fetched /\ r2 = "ok" /\ net.raised)
        inClient == client_version_mismatch /\ uc = "error"
        inActivity == res_version_mismatch /\ ua = "error"
    IN  [config |-> IF inTry \/ inClient \/ inActivity \/ ~res_version_mismatch
                    THEN c2 ELSE UpdateActivity(c2),
         raised |-> inTry \/ inClient \/ inActivity]

\* lines 233-292: the break of line 292 follows the try statement, so the
\* body of the loop runs once whether or not the Timeout of line 290 was caught
NotChecked == [passes |-> 0, timeouts |-> 0]
Timeouts(r1, r2) ==
    IF r1 = "timeout" \/ (r1 = "ok" /\ r2 = "timeout") THEN 1 ELSE 0

(***************************************************************************)
(* randomizer: only its effect on the configuration document.              *)
(***************************************************************************)
RandomizerDefaults(c) ==
    LET c1 == SetDefault(c, "userConfig", EmptyDict)
        u1 == SetDefault(c1["userConfig"], "randomSecretary",
                         [active |-> FALSE, sixStarOnly |-> TRUE])
        u2 == SetDefault(u1, "randomBackground", FALSE)
        u3 == SetDefault(u2, "randomTheme", FALSE)
        u4 == SetDefault(u3, "randomSquad",
                         [active |-> FALSE, sixStarOnly |-> TRUE])
    IN  Put(c1, "userConfig", u4)

(***************************************************************************)
(* check_device_state: the netstat table and the connectivity dump.        *)
(***************************************************************************)
Processes == {"system_server", "ntp_server", "adbd", "frida-server"}
check_state == {"system_server", "ntp_server", "adbd"}

\* Inconsistent that wants every marker of check_state in the table
Inconsistent_all(netstat) ==
    (\A check \in check_state : check \in netstat) /\ "frida-server" \notin netstat

\* line 469
Inconsistent(netstat) ==
    (\E check \in check_state : check \in netstat) /\ "frida-server" \notin netstat

\* A dump is a sequence of lines; k is the shape of the line and v the text
\* that follows "<digit> " on a line of that shape.
Line(k) == [k |-> k, v |-> ""]
Entry(v) == [k |-> "entry", v |-> v]
Dumps ==
    { << Line("tracker"), Line("supported"), Line("state"),
         Entry("CONNECTED/CONNECTED") >>,
      << Line("tracker"), Line("supported"), Line("state") >>,
      << Line("tracker"), Line("supported"), Line("state"), Entry("") >>,
      << Line("other") >>,
      << Line("other"), Line("tracker"), Line("blank"), Line("supported"),
         Line("state"), Line("blank"), Entry("DISCONNECTED/DISCONNECTED") >>,
      << Line("tracker"), Line("other"), Line("supported"), Line("state"),
         Entry("CONNECTED/CONNECTED") >> }

NoMatch == [matched |-> FALSE, group |-> ""]
\* the local variable connectivity before its first assignment
Unbound == [matched |-> FALSE, group |-> "<unbound>"]

\* the closest line before line i that is not blank, 0 when there is none
PrevLine(dump, i) ==
    IF \E j \in 1..(i - 1) : dump[j].k # "blank"
    THEN CHOOSE j \in 1..(i - 1) :
            dump[j].k # "blank" /\ \A m \in (j + 1)..(i - 1) : dump[m].k = "blank"
    ELSE 0

\* the lookbehind of REGEX_PATTERN holds at the text of line e
LookBehind(dump, e) ==
    LET s == PrevLine(dump, e)
        t == IF s = 0 THEN 0 ELSE PrevLine(dump, s)
        r == IF t = 0 THEN 0 ELSE PrevLine(dump, t)
    IN  /\ dump[e].k = "entry"
        /\ r # 0
        /\ dump[s].k = "state"
        /\ dump[t].k = "supported"
        /\ dump[r].k = "tracker"

\* regex.search(REGEX_PATTERN, dumpsys): the leftmost match
RegexSearch(dump) ==
    IF \E e \in 1..Len(dump) : LookBehind(dump, e)
    THEN LET e == CHOOSE i \in 1..Len(dump) :
                    LookBehind(dump, i) /\ \A j \in 1..(i - 1) : ~LookBehind(dump, j)
         IN  [matched |-> TRUE, group |-> dump[e].v]
    ELSE NoMatch

(***************************************************************************)
(* script_manager: script files and placeholder substitution.              *)
(***************************************************************************)
BOOTSTRAP == "_.js"
HOST == "@@@DOCTORATE_HOST@@@"
PORT == "@@@DOCTORATE_PORT@@@"
MIN_TS == "@@@DOCTORATE_ACTIVITY_MIN_START_TS@@@"
MAX_TS == "@@@DOCTORATE_ACTIVITY_MAX_START_TS@@@"
Placeholders == {HOST, PORT, MIN_TS, MAX_TS}

\* A script text is a sequence of tokens: placeholders and other code.
BootstrapTexts ==
    { << "var h =", HOST, "var p =", PORT, MIN_TS, MAX_TS >>,
      << HOST, "||", HOST, PORT, MAX_TS >> }
OptionalText == << "Interceptor.attach()" >>

OptionalScripts == {"a.js", "b.js"}

RECURSIVE Perms(_)
\* the orders in which os.listdir may return the set of names S
Perms(S) ==
    IF S = {} THEN {<<>>}
    ELSE UNION { { <<x>> \o p : p \in Perms(S \ {x}) } : x \in S }

Listings ==
    UNION { Perms(S \cup {BOOTSTRAP}) :
              S \in { T \in SUBSET OptionalScripts : Cardinality(T) <= MaxScripts } }

RECURSIVE Str(_)
\* str(n) of a non-negative int
Str(n) == IF n < 10 THEN Digits[n + 1] ELSE Str(n \div 10) \o Digits[(n % 10) + 1]

\* text.replace(old, new, 1)
Replace1(text, old, new) ==
    IF \E i \in 1..Len(text) : text[i] = old
    THEN LET i == CHOOSE k \in 1..Len(text) :
                    text[k] = old /\ \A j \in 1..(k - 1) : text[j] # old
         IN  [k \in 1..Len(text) |-> IF k = i THEN new ELSE text[k]]
    ELSE text

\* lines 819-828; only called once config["server"] is known to exist
ScriptDefaults(c) ==
    LET s1 == SetDefault(c["server"], "noProxy", FALSE)
        s2 == SetDefault(s1, "host", "127.0.0.1")
        s3 == SetDefault(s2, "port", ScriptDefaultPort)
        c1 == Put(c, "server", s3)
        u1 == SetDefault(c1["userConfig"], "activityMinStartTs", 0)
        u2 == SetDefault(u1, "activityMaxStartTs", 0)
    IN  Put(c1, "userConfig", u2)

\* lines 830-851
Substitute(script_file, c) ==
    Replace1(
      Replace1(
        Replace1(
          Replace1(script_file, HOST,
                   IF c["server"]["noProxy"] THEN "NO_PROXY" ELSE c["server"]["host"]),
          PORT, Str(c["server"]["port"])),
        MIN_TS, Str(c["userConfig"]["activityMinStartTs"])),
      MAX_TS, Str(c["userConfig"]["activityMaxStartTs"]))

\* lines 852-855
RegisterScript(c, filename) ==
    IF ~Has(c, "scriptConfig") THEN Put(c, "scriptConfig", EmptyDict)
    ELSE IF ~Has(c["scriptConfig"], filename)
         THEN Put2(c, "scriptConfig", filename, FALSE)
         ELSE c

\* the condition of line 856 with the value test left out
ShouldLoad_registered(c, filename) ==
    filename = BOOTSTRAP \/ Has(c["scriptConfig"], filename)

\* line 856
ShouldLoad(c, filename) ==
    filename = BOOTSTRAP \/ c["scriptConfig"][filename] = TRUE

\* One pass of the loop body, lines 817-859, for a file that can be read:
\* the configuration it leaves, the key of the KeyError it raised ("" when it
\* raised none), and the source it passed to session.create_script.
ScriptPass(c, filename, script_file) ==
    IF ~Has(c, "server")
    THEN [config |-> c, key |-> "server", load |-> FALSE, source |-> <<>>]
    ELSE IF ~Has(c, "userConfig")
    THEN [config |->
             Put(c, "server",
                 SetDefault(SetDefault(SetDefault(c["server"],
                     "noProxy", FALSE), "host", "127.0.0.1"),
                     "port", ScriptDefaultPort)),
          key |-> "userConfig", load |-> FALSE, source |-> <<>>]
    ELSE LET c1 == ScriptDefaults(c)
             text == IF filename = BOOTSTRAP THEN Substitute(script_file, c1)
                     ELSE script_file
             c2 == RegisterScript(c1, filename)
         IN  IF filename # BOOTSTRAP /\ ~Has(c2["scriptConfig"], filename)
             THEN [config |-> c2, key |-> filename, load |-> FALSE,
                   source |-> <<>>]
             ELSE IF ShouldLoad(c2, filename)
                  THEN [config |-> c2, key |-> "", load |-> TRUE, source |-> text]
                  ELSE [config |-> c2, key |-> "", load |-> FALSE,
                        source |-> <<>>]

\* lines 631-643: the message callback of the process
on_message == "on_message"

\* the calls with load() ahead of on()
ScriptCalls_loadFirst ==
    << [call |-> "load", arg |-> ""], [call |-> "on", arg |-> on_message] >>

\* lines 858-859: the calls made, in order, on a script that
\* session.create_script returned
ScriptCalls ==
    << [call |-> "on", arg |-> on_message], [call |-> "load", arg |-> ""] >>

\* filenames of the listing, other than _.js, that scriptConfig does not hold
Unseen(c, listing) ==
    { listing[i] : i \in 1..Len(listing) } \
        ({BOOTSTRAP} \cup (IF Has(c, "scriptConfig") THEN DOMAIN c["scriptConfig"]
                           ELSE {}))

NoExc == [type |-> "", arg |-> ""]
Exc(type, arg) == [type |-> type, arg |-> arg]

(***************************************************************************)
(* State.                                                                  *)
(***************************************************************************)
VARIABLES
    config,          \* the dict main loads and passes around by reference
    configFile,      \* content of config/config.json
    main_pc,         \* position of the main thread
    event,           \* flag of the threading.Event created in __main__
    eventLog,        \* callers of event.set(), in order
    retries,         \* get_device: empty enumerations seen
    devices,         \* get_device: devices
    selected_device, \* get_device: selected_device (0-based)
    inp,             \* get_device: the last line read by int(input())
    inputReads,      \* get_device: calls of input()
    answer,          \* get_device: the line read by the confirmation prompt
    listShown,       \* get_device: the numbered list was printed
    gd_result,       \* get_device: returned device
    adb_device,      \* main: adb_device (a serial)
    version_check,   \* check_updates: passes of its request loop and timeouts caught
    netstat_tulpn,   \* check_device_state: process names in the netstat output
    rebooted,        \* check_device_state: the reboot command was issued
    now,             \* check_device_state: seconds since it was entered
    reboot_timeout,  \* check_device_state: reboot_timeout
    connectivity,    \* check_device_state: result of the last regex.search
    caught,          \* check_device_state: the last dumpsys raised CalledProcessError
    marker,          \* adb_device: /data/local/tmp/frida-server exists (once inspected)
    xz,              \* host: frida-server-<architecture>.xz exists (once inspected)
    plain,           \* host: the decompressed file frida-server exists
    install,         \* install_frida: the steps it ran and the one that failed
    local_pc,        \* position of the start_local_server thread
    srv_pc,          \* position of the start_frida_server thread
    server_port,     \* start_frida_server: server_port
    tunnel,          \* device: port of the reverse tunnel, 0 when there is none
    launched,        \* device: the frida-server binary was started
    hook_pc,         \* position of the start_frida_hook thread
    pid,             \* start_frida_hook: pid, 0 before the spawn
    session,         \* start_frida_hook: state of the frida session
    exc,             \* start_frida_hook: the exception that ended the thread
    unseen,          \* script_manager: names scriptConfig lacked at the listing
    listing,         \* script_manager: what os.listdir(script_dir) returned
    eof,             \* sys.stdin: end-of-stream has been reached
    todo,            \* script_manager: files of the listing not yet visited
    loaded           \* session: the scripts loaded, in order

vars == << config, configFile, main_pc, event, eventLog, retries, devices,
           selected_device, inp, answer, inputReads, listShown, gd_result, adb_device, version_check,
           netstat_tulpn, rebooted, now, reboot_timeout, connectivity,
           caught, marker, xz, plain, install, local_pc, srv_pc, server_port, tunnel,
           launched, hook_pc, pid, session, exc, unseen, listing, eof, todo, loaded >>

cdsVars == << netstat_tulpn, rebooted, now, reboot_timeout, connectivity,
              caught >>

fileVars == << marker, xz, plain, install >>

srvVars == << srv_pc, server_port, tunnel, launched >>

hookVars == << hook_pc, pid, session, exc, unseen, listing, eof, todo, loaded >>

\* everything the threads started by main own
threadVars == << local_pc, srvVars, hookVars >>

gdVars == << retries, devices, selected_device, inp, answer, inputReads, listShown,
            gd_result >>

NoDevice == "<no device>"
NotInstalled == [steps |-> <<>>, failed |-> ""]

Init ==
    /\ configFile \in InitConfigs \cup {NoFile}
    /\ config = EmptyDict
    /\ main_pc = "load_config"
    /\ event = FALSE
    /\ eventLog = <<>>
    /\ retries = 0
    /\ devices = <<>>
    /\ selected_device = 0
    /\ inp = <<>>
    /\ inputReads = 0
    /\ answer = <<>>
    /\ listShown = FALSE
    /\ gd_result = NoDevice
    /\ adb_device = NoDevice
    /\ version_check = NotChecked
    /\ netstat_tulpn = {}
    /\ rebooted = FALSE
    /\ now = 0
    /\ reboot_timeout = 0
    /\ connectivity = Unbound
    /\ caught = FALSE
    /\ marker = FALSE
    /\ xz = FALSE
    /\ plain = FALSE
    /\ install = NotInstalled
    /\ local_pc = "idle"
    /\ srv_pc = "idle"
    /\ server_port = 0
    /\ tunnel = 0
    /\ launched = FALSE
    /\ hook_pc = "idle"
    /\ pid = 0
    /\ session = "none"
    /\ exc = NoExc
    /\ unseen = {}
    /\ listing = <<>>
    /\ eof = FALSE
    /\ todo = <<>>
    /\ loaded = <<>>

(***************************************************************************)
(* main, lines 133-160.                                                    *)
(***************************************************************************)
\* lines 133-145
LoadConfig ==
    /\ main_pc = "load_config"
    /\ IF configFile = NoFile
       THEN /\ configFile' = EmptyDict
            /\ config' = EmptyDict
       ELSE /\ config' = configFile
            /\ UNCHANGED configFile
    /\ main_pc' = "check_updates"
    /\ UNCHANGED << event, eventLog, gdVars, adb_device, version_check, cdsVars, fileVars, threadVars >>

\* line 147
CheckUpdates ==
    /\ main_pc = "check_updates"
    /\ \E r1, r2 \in RequestOutcomes, uc, ua \in {"ok", "error"} :
         LET res == CheckUpdatesResult(config, r1, r2, uc, ua)
         IN  /\ config' = res.config
             /\ version_check' = [passes |-> 1, timeouts |-> Timeouts(r1, r2)]
             /\ main_pc' = IF res.raised THEN "raised" ELSE "randomizer"
    /\ UNCHANGED << configFile, event, eventLog, gdVars, adb_device, cdsVars,
                    fileVars, threadVars >>

\* lines 149-150; user_json: data/user/user.json is a file
Randomizer ==
    /\ main_pc = "randomizer"
    /\ \E user_json \in BOOLEAN :
         config' = IF user_json THEN RandomizerDefaults(config) ELSE config
    /\ main_pc' = "adb_setup"
    /\ UNCHANGED << configFile, event, eventLog, gdVars, adb_device, version_check, cdsVars, fileVars, threadVars >>

\* lines 152-161; ok: the download, the unzip and both adb commands succeed
AdbSetup ==
    /\ main_pc = "adb_setup"
    /\ \E ok \in BOOLEAN : main_pc' = IF ok THEN "get_device" ELSE "raised"
    /\ UNCHANGED << config, configFile, event, eventLog, gdVars, adb_device, version_check, cdsVars, fileVars, threadVars >>

(***************************************************************************)
(* get_device, lines 392-441.                                              *)
(***************************************************************************)
DefaultDeviceDefaults(c) ==
    SetDefault2(SetDefault(c, "userConfig", EmptyDict),
                "userConfig", "defaultDevice", None)

\* DefaultIndex that takes the first device whenever some serial matches
DefaultIndex_first(ds, dd) ==
    IF \E i \in 1..Len(ds) : ds[i] = dd THEN 1 ELSE 0

\* index of the first device whose serial is the default, 0 when none is
DefaultIndex(ds, dd) ==
    IF \E i \in 1..Len(ds) : ds[i] = dd
    THEN CHOOSE i \in 1..Len(ds) :
            ds[i] = dd /\ \A j \in 1..(i - 1) : ds[j] # dd
    ELSE 0

\* lines 392-400 giving up after the first empty enumeration
GdEnumerate_giveUp ==
    /\ main_pc = "get_device"
    /\ \E ds \in DeviceLists :
         IF Len(ds) = 0
         THEN /\ retries' = 0
              /\ main_pc' = "raised"
              /\ UNCHANGED devices
         ELSE /\ devices' = ds
              /\ main_pc' = "gd_select"
              /\ retries' = 0
    /\ UNCHANGED << config, configFile, event, eventLog, selected_device, inp, answer,
                    inputReads, listShown, gd_result, adb_device, version_check,
                    cdsVars, fileVars, threadVars >>

\* lines 392-400: one cycle of remote_connect on every port, then devices()
GdEnumerate ==
    /\ main_pc = "get_device"
    /\ \E ds \in DeviceLists :
         IF Len(ds) = 0
         THEN /\ retries < MaxRetries
              /\ retries' = retries + 1
              /\ UNCHANGED << devices, main_pc >>
         ELSE /\ devices' = ds
              /\ main_pc' = "gd_select"
              /\ retries' = 0
    /\ UNCHANGED << config, configFile, event, eventLog, selected_device, inp, answer,
                    inputReads, listShown, gd_result, adb_device, version_check, cdsVars,
                    fileVars, threadVars >>

\* lines 402-424 and 440-441
GdSelect ==
    /\ main_pc = "gd_select"
    /\ IF Len(devices) > 1
       THEN LET c1 == DefaultDeviceDefaults(config)
                dd == c1["userConfig"]["defaultDevice"]
            IN  /\ config' = c1
                /\ IF Truthy(dd)
                   THEN /\ gd_result' = IF DefaultIndex(devices, dd) # 0
                                        THEN devices[DefaultIndex(devices, dd)]
                                        ELSE devices[1]
                        /\ main_pc' = "gd_return"
                        /\ UNCHANGED listShown
                   ELSE /\ listShown' = TRUE
                        /\ main_pc' = "gd_input"
                        /\ UNCHANGED gd_result
       ELSE /\ gd_result' = devices[1]
            /\ main_pc' = "gd_return"
            /\ UNCHANGED << config, listShown >>
    /\ UNCHANGED << configFile, event, eventLog, retries, devices,
                    selected_device, inp, answer, inputReads, adb_device, version_check, cdsVars,
                    fileVars, threadVars >>

\* InputRejected with the upper limit off by one
InputRejected_offByOne(line, n) ==
    \/ IntRaises(line)
    \/ IntVal(line) - 1 < 0
    \/ IntVal(line) - 1 > n

\* lines 426-433: the line is answered by a re-prompt; n is len(devices)
InputRejected(line, n) ==
    \/ IntRaises(line)
    \/ IntVal(line) - 1 < 0
    \/ IntVal(line) - 1 >= n

\* lines 425-434: one pass of the selection loop
GdInput ==
    /\ main_pc = "gd_input"
    /\ \E line \in Inputs :
             /\ inp' = line
             /\ IF InputRejected(line, Len(devices))
                THEN /\ inputReads < MaxInputs
                     /\ UNCHANGED << selected_device, main_pc >>
                ELSE /\ selected_device' = IntVal(line) - 1
                     /\ main_pc' = "gd_confirm"
    /\ inputReads' = inputReads + 1
    /\ UNCHANGED << config, configFile, event, eventLog, retries, devices,
                    answer, listShown, gd_result, adb_device, version_check,
                    cdsVars, fileVars, threadVars >>

\* the test of line 435 without .lower()
Confirms_caseSensitive(ans) == ans \in { <<"y">>, <<"y", "e", "s">> }

\* line 435
Confirms(ans) == Lower(ans) \in { <<"y">>, <<"y", "e", "s">> }

\* lines 435-439
GdConfirm ==
    /\ main_pc = "gd_confirm"
    /\ \E ans \in Answers :
         /\ answer' = ans
         /\ config' = IF Confirms(ans)
                      THEN Put2(config, "userConfig", "defaultDevice",
                                devices[selected_device + 1])
                      ELSE config
    /\ inputReads' = inputReads + 1
    /\ gd_result' = devices[selected_device + 1]
    /\ main_pc' = "gd_return"
    /\ UNCHANGED << configFile, event, eventLog, retries, devices,
                    selected_device, inp, listShown, adb_device,
                    version_check, cdsVars, fileVars, threadVars >>

\* line 162: adb_device = get_device(...)
MainGotDevice ==
    /\ main_pc = "gd_return"
    /\ adb_device' = gd_result
    /\ main_pc' = "check_device_state"
    /\ retries' = 0
    /\ devices' = <<>>
    /\ selected_device' = 0
    /\ inp' = <<>>
    /\ inputReads' = 0
    /\ answer' = <<>>
    /\ listShown' = FALSE
    /\ gd_result' = NoDevice
    /\ UNCHANGED << config, configFile, event, eventLog, version_check, cdsVars,
                    fileVars, threadVars >>

(***************************************************************************)
(* check_device_state, lines 463-491.                                      *)
(***************************************************************************)
\* lines 463-471; ok: the netstat command exits with status 0
CdsNetstat ==
    /\ main_pc = "check_device_state"
    /\ \E ok \in BOOLEAN, ns \in SUBSET Processes :
         IF ~ok
         THEN /\ ns = {}
              /\ main_pc' = "raised"
              /\ UNCHANGED << netstat_tulpn, rebooted >>
         ELSE /\ netstat_tulpn' = ns
              /\ rebooted' = Inconsistent(ns)
              /\ main_pc' = IF Inconsistent(ns) THEN "cds_sleep" ELSE "cds_set"
    /\ UNCHANGED << config, configFile, event, eventLog, gdVars, adb_device, version_check,
                    now, reboot_timeout, connectivity, caught,
                    fileVars, threadVars >>

\* lines 472-473
CdsSleep ==
    /\ main_pc = "cds_sleep"
    /\ now' = now + SettleDelay
    /\ reboot_timeout' = now' + RebootTimeout
    /\ netstat_tulpn' = {}
    /\ main_pc' = "cds_loop"
    /\ UNCHANGED << config, configFile, event, eventLog, gdVars, adb_device, version_check,
                    rebooted, connectivity, caught, fileVars, threadVars >>

\* CdsCheckTimeout that raises when the timeout has passed
CdsCheckTimeout_hard ==
    /\ main_pc = "cds_loop"
    /\ main_pc' = IF now > reboot_timeout THEN "raised" ELSE "cds_dumpsys"
    /\ UNCHANGED << config, configFile, event, eventLog, gdVars, adb_device, version_check,
                    cdsVars, fileVars, threadVars >>

\* lines 474-478
CdsCheckTimeout ==
    /\ main_pc = "cds_loop"
    /\ main_pc' = IF now > reboot_timeout THEN "cds_set" ELSE "cds_dumpsys"
    /\ UNCHANGED << config, configFile, event, eventLog, gdVars, adb_device, version_check,
                    cdsVars, fileVars, threadVars >>

\* the test of line 486 asking for a connected status
Ready_connectedOnly(m) == m.matched /\ m.group = "CONNECTED/CONNECTED"

\* line 486: connectivity and connectivity.group(0)
Ready(m) == m.matched /\ m.group # ""

\* CdsDumpsys without the except clause: CalledProcessError propagates
CdsDumpsys_abort ==
    /\ main_pc = "cds_dumpsys"
    /\ \E d \in {FastDump, SlowDump} :
         /\ now' = now + d
         /\ \/ /\ caught' = TRUE
               /\ main_pc' = "raised"
               /\ UNCHANGED connectivity
            \/ \E dumpsys \in Dumps :
                 /\ connectivity' = RegexSearch(dumpsys)
                 /\ main_pc' = IF Ready(connectivity') THEN "cds_set"
                               ELSE "cds_loop"
                 /\ caught' = FALSE
    /\ UNCHANGED << config, configFile, event, eventLog, gdVars, adb_device, version_check,
                    netstat_tulpn, rebooted, reboot_timeout, fileVars,
                    threadVars >>

\* lines 479-490; d: seconds the command takes
CdsDumpsys ==
    /\ main_pc = "cds_dumpsys"
    /\ \E d \in {FastDump, SlowDump} :
         /\ now' = now + d
         /\ \/ /\ caught' = TRUE                  \* CalledProcessError
               /\ main_pc' = "cds_loop"
               /\ UNCHANGED connectivity
            \/ \E dumpsys \in Dumps :
                 /\ connectivity' = RegexSearch(dumpsys)
                 /\ main_pc' = IF Ready(connectivity') THEN "cds_set"
                               ELSE "cds_loop"
                 /\ caught' = FALSE
    /\ UNCHANGED << config, configFile, event, eventLog, gdVars, adb_device, version_check,
                    netstat_tulpn, rebooted, reboot_timeout, fileVars,
                    threadVars >>

\* line 491
CdsSet ==
    /\ main_pc = "cds_set"
    /\ event' = TRUE
    /\ eventLog' = Append(eventLog, "check_device_state")
    /\ main_pc' = "wait_device_state"
    /\ netstat_tulpn' = {}
    /\ UNCHANGED << config, configFile, gdVars, adb_device, version_check, rebooted, now,
                    reboot_timeout, connectivity, caught, fileVars, threadVars >>

(***************************************************************************)
(* main, lines 165-192.                                                    *)
(***************************************************************************)
\* line 165
MainWaitDeviceState ==
    /\ main_pc = "wait_device_state"
    /\ event
    /\ main_pc' = "clear"
    /\ rebooted' = FALSE
    /\ now' = 0
    /\ reboot_timeout' = 0
    /\ connectivity' = Unbound
    /\ caught' = FALSE
    /\ UNCHANGED << config, configFile, event, eventLog, gdVars, adb_device, version_check,
                    netstat_tulpn, fileVars, threadVars >>

\* MainClear without the call of event.clear()
MainClear_skip ==
    /\ main_pc = "clear"
    /\ main_pc' = "root"
    /\ UNCHANGED << config, configFile, event, eventLog, gdVars, adb_device, version_check,
                    cdsVars, fileVars, threadVars >>

\* line 166
MainClear ==
    /\ main_pc = "clear"
    /\ event' = FALSE
    /\ main_pc' = "root"
    /\ UNCHANGED << config, configFile, eventLog, gdVars, adb_device, version_check, cdsVars, fileVars, threadVars >>

\* lines 168-173; ok: wait-for-device exits with status 0
MainRoot ==
    /\ main_pc = "root"
    /\ \E ok \in BOOLEAN : main_pc' = IF ok THEN "install_check" ELSE "raised"
    /\ UNCHANGED << config, configFile, event, eventLog, gdVars, adb_device, version_check,
                    cdsVars, fileVars, threadVars >>

\* line 175: the answer of "test -f /data/local/tmp/frida-server && echo True"
\* is non-empty exactly when the file is present
InstallSkipped_never(present) == FALSE

InstallSkipped(present) == present

\* lines 175-179; present: what the device selected by get_device holds
MainInstallCheck ==
    /\ main_pc = "install_check"
    /\ \E present \in BOOLEAN :
         /\ marker' = present
         /\ main_pc' = IF InstallSkipped(present) THEN "write_config"
                       ELSE "install_frida"
    /\ UNCHANGED << config, configFile, event, eventLog, gdVars, adb_device, version_check,
                    cdsVars, xz, plain, install, threadVars >>

\* the ways install_frida ends: "ok" (line 628); "metadata": the request of
\* line 610 raises or its answer has no tag_name; "download": the request of
\* line 614 raises; "status": the request of line 614 answers with an error
\* page, which line 615 stores and line 620 cannot decompress; "lzma": the
\* cached file cannot be decompressed (lines 619-620); "push": line 624 raises
InstallOutcomes == {"ok", "metadata", "download", "status", "lzma", "push"}
NetworkFailures == {"metadata", "download", "status"}
InstallFailures == NetworkFailures \cup {"lzma"}

\* the steps of lines 606-627 that run, in order, up to the one that fails
InstallSteps(cached, outcome) ==
    LET fetch == IF cached THEN <<>>
                 ELSE IF outcome = "metadata" THEN <<"metadata">>
                 ELSE <<"metadata", "download">>
        unpack == IF outcome \in {"metadata", "download"} THEN <<>>
                  ELSE <<"lzma">>
        copy == IF outcome \in {"ok", "push"} THEN <<"push">> ELSE <<>>
        finish == IF outcome = "ok" THEN <<"chmod", "unlink">> ELSE <<>>
    IN  <<"getprop">> \o fetch \o unpack \o copy \o finish

\* install_frida that logs a failure and lets main go on
InstallFrida_goOn ==
    /\ main_pc = "install_frida"
    /\ \E cached \in BOOLEAN, outcome \in InstallOutcomes :
         /\ cached => outcome \notin NetworkFailures
         /\ xz' = (cached \/ outcome \notin {"metadata", "download"})
         /\ plain' = (outcome = "push")
         /\ marker' = (outcome = "ok")
         /\ install' = [steps |-> InstallSteps(cached, outcome),
                        failed |-> IF outcome = "ok" THEN "" ELSE outcome]
         /\ main_pc' = "write_config"
    /\ UNCHANGED << config, configFile, event, eventLog, gdVars, adb_device, version_check,
                    cdsVars, threadVars >>

\* install_frida, lines 606-628; cached: the compressed file for the device's
\* architecture is in the working directory
InstallFrida ==
    /\ main_pc = "install_frida"
    /\ \E cached \in BOOLEAN, outcome \in InstallOutcomes :
         /\ cached => outcome \notin NetworkFailures
         /\ xz' = (cached \/ outcome \notin {"metadata", "download"})
         /\ plain' = (outcome = "push")
         /\ marker' = (outcome = "ok")
         /\ install' = [steps |-> InstallSteps(cached, outcome),
                        failed |-> IF outcome = "ok" THEN "" ELSE outcome]
         /\ main_pc' = IF outcome = "ok" THEN "write_config" ELSE "raised"
    /\ UNCHANGED << config, configFile, event, eventLog, gdVars, adb_device, version_check,
                    cdsVars, threadVars >>

\* line 181: open("w") empties the file before anything is written
MainOpenConfig ==
    /\ main_pc = "write_config"
    /\ configFile' = Truncated
    /\ main_pc' = "dump_config"
    /\ UNCHANGED << config, event, eventLog, gdVars, adb_device, version_check, cdsVars,
                    fileVars, threadVars >>

\* line 182 and the close of the with statement
MainWriteConfig ==
    /\ main_pc = "dump_config"
    /\ configFile' = config
    /\ main_pc' = "start_local_server"
    /\ UNCHANGED << config, event, eventLog, gdVars, adb_device, version_check, cdsVars,
                    fileVars, threadVars >>

\* line 184 followed at once by the thread start of line 192
MainStartLocalServer_andHook ==
    /\ main_pc = "start_local_server"
    /\ local_pc' = "started"
    /\ hook_pc' = "get_device"
    /\ main_pc' = "server_defaults"
    /\ UNCHANGED << config, configFile, event, eventLog, gdVars, adb_device,
                    version_check, cdsVars, fileVars, srvVars, pid, session,
                    exc, unseen, listing, eof, todo, loaded >>

\* line 184
MainStartLocalServer ==
    /\ main_pc = "start_local_server"
    /\ local_pc' = "started"
    /\ main_pc' = "server_defaults"
    /\ UNCHANGED << config, configFile, event, eventLog, gdVars, adb_device, version_check,
                    cdsVars, fileVars, srvVars, hookVars >>

\* lines 185-188 with the default port of script_manager
ServerDefaults_scriptPort(c) ==
    SetDefault2(SetDefault(c, "server", EmptyDict), "server", "port",
                ScriptDefaultPort)

\* lines 185-188
ServerDefaults(c) ==
    SetDefault2(SetDefault(c, "server", EmptyDict), "server", "port",
                MainDefaultPort)

MainServerDefaults ==
    /\ main_pc = "server_defaults"
    /\ config' = ServerDefaults(config)
    /\ main_pc' = "start_frida_server"
    /\ UNCHANGED << configFile, event, eventLog, gdVars, adb_device, version_check, cdsVars,
                    fileVars, threadVars >>

\* line 189
MainStartFridaServer ==
    /\ main_pc = "start_frida_server"
    /\ srv_pc' = "adb_start"
    /\ server_port' = config["server"]["port"]
    /\ main_pc' = "wait_server"
    /\ UNCHANGED << config, configFile, event, eventLog, gdVars, adb_device, version_check,
                    cdsVars, fileVars, local_pc, tunnel, launched, hookVars >>

\* line 190 without the wait
MainWaitServer_noWait ==
    /\ main_pc = "wait_server"
    /\ main_pc' = "sleep"
    /\ UNCHANGED << config, configFile, event, eventLog, gdVars, adb_device,
                    version_check, cdsVars, fileVars, threadVars >>

\* line 190
MainWaitServer ==
    /\ main_pc = "wait_server"
    /\ event
    /\ main_pc' = "sleep"
    /\ UNCHANGED << config, configFile, event, eventLog, gdVars, adb_device, version_check,
                    cdsVars, fileVars, threadVars >>

\* lines 191-192
MainStartHook ==
    /\ main_pc = "sleep"
    /\ hook_pc' = "get_device"
    /\ main_pc' = "done"
    /\ UNCHANGED << config, configFile, event, eventLog, gdVars, adb_device, version_check,
                    cdsVars, fileVars, local_pc, srvVars, pid, session, exc,
                    unseen, listing, eof, todo, loaded >>

(***************************************************************************)
(* start_local_server, lines 648-690.                                      *)
(***************************************************************************)
\* the thread ends: the walk finds no server file, or the server process
\* exits and subprocess.run returns or raises
LocalServer ==
    /\ local_pc = "started"
    /\ local_pc' = "ended"
    /\ UNCHANGED << config, configFile, main_pc, event, eventLog, gdVars,
                    adb_device, version_check, cdsVars, fileVars, srvVars, hookVars >>

(***************************************************************************)
(* start_frida_server, lines 716-745.                                      *)
(***************************************************************************)
\* lines 717-724 with the event set when a command fails
SrvWaitDevice_setOnFailure ==
    /\ srv_pc = "adb_start"
    /\ \E ok \in BOOLEAN :
         IF ok THEN srv_pc' = "reverse" /\ UNCHANGED event
         ELSE srv_pc' = "raised" /\ event' = TRUE
    /\ UNCHANGED << config, configFile, main_pc, eventLog, gdVars, adb_device,
                    version_check, cdsVars, fileVars, local_pc, server_port,
                    tunnel, launched, hookVars >>

\* lines 717-724; ok: adb start-server and wait-for-device exit with status 0
SrvWaitDevice ==
    /\ srv_pc = "adb_start"
    /\ \E ok \in BOOLEAN : srv_pc' = IF ok THEN "reverse" ELSE "raised"
    /\ UNCHANGED << config, configFile, main_pc, event, eventLog, gdVars,
                    adb_device, version_check, cdsVars, fileVars, local_pc, server_port, tunnel,
                    launched, hookVars >>

\* lines 725-735 without check=True
SrvReverse_unchecked ==
    /\ srv_pc = "reverse"
    /\ \E ok \in BOOLEAN :
         /\ tunnel' = IF ok THEN server_port ELSE tunnel
         /\ srv_pc' = "set"
    /\ UNCHANGED << config, configFile, main_pc, event, eventLog, gdVars,
                    adb_device, version_check, cdsVars, fileVars, local_pc,
                    server_port, launched, hookVars >>

\* lines 725-735
SrvReverse ==
    /\ srv_pc = "reverse"
    /\ \E ok \in BOOLEAN :
         IF ok THEN tunnel' = server_port /\ srv_pc' = "set"
         ELSE UNCHANGED tunnel /\ srv_pc' = "raised"
    /\ UNCHANGED << config, configFile, main_pc, event, eventLog, gdVars,
                    adb_device, version_check, cdsVars, fileVars, local_pc, server_port,
                    launched, hookVars >>

\* line 736
SrvSet ==
    /\ srv_pc = "set"
    /\ event' = TRUE
    /\ eventLog' = Append(eventLog, "start_frida_server")
    /\ srv_pc' = "launch"
    /\ UNCHANGED << config, configFile, main_pc, gdVars, adb_device, version_check, cdsVars,
                    fileVars, local_pc, server_port, tunnel, launched, hookVars >>

\* line 737: the shell command that runs the binary is issued
SrvLaunch ==
    /\ srv_pc = "launch"
    /\ launched' = TRUE
    /\ srv_pc' = "done"
    /\ UNCHANGED << config, configFile, main_pc, event, eventLog, gdVars,
                    adb_device, version_check, cdsVars, fileVars, local_pc, server_port, tunnel,
                    hookVars >>

(***************************************************************************)
(* start_frida_hook, lines 763-785.                                        *)
(***************************************************************************)
\* lines 764-765; ok: frida.get_device finds the device within its timeout
HookGetDevice ==
    /\ hook_pc = "get_device"
    /\ \E ok \in BOOLEAN :
         IF ok THEN hook_pc' = "spawn" /\ UNCHANGED exc
         ELSE hook_pc' = "raised" /\ exc' = Exc("frida.Error", "get_device")
    /\ UNCHANGED << config, configFile, main_pc, event, eventLog, gdVars,
                    adb_device, version_check, cdsVars, fileVars, local_pc, srvVars, pid,
                    session, unseen, listing, eof, todo, loaded >>

\* lines 767-771
HookSpawn ==
    /\ hook_pc = "spawn"
    /\ \E ok \in BOOLEAN :
         IF ok THEN pid' = 1 /\ hook_pc' = "resume" /\ UNCHANGED exc
         ELSE /\ UNCHANGED pid
              /\ hook_pc' = "raised"
              /\ exc' = Exc("frida.Error", "spawn")
    /\ UNCHANGED << config, configFile, main_pc, event, eventLog, gdVars,
                    adb_device, version_check, cdsVars, fileVars, local_pc, srvVars, session,
                    unseen, listing, eof, todo, loaded >>

\* lines 772-773
HookAttach ==
    /\ hook_pc = "resume"
    /\ \E ok \in BOOLEAN :
         IF ok THEN /\ session' = "attached"
                    /\ hook_pc' = "script_manager"
                    /\ UNCHANGED exc
         ELSE /\ UNCHANGED session
              /\ hook_pc' = "raised"
              /\ exc' = Exc("frida.Error", "attach")
    /\ UNCHANGED << config, configFile, main_pc, event, eventLog, gdVars,
                    adb_device, version_check, cdsVars, fileVars, local_pc, srvVars, pid,
                    unseen, listing, eof, todo, loaded >>

(***************************************************************************)
(* script_manager, lines 807-864.                                          *)
(***************************************************************************)
\* lines 807-816; ok: _.js exists or its download succeeds
SmList ==
    /\ hook_pc = "script_manager"
    /\ \E ok \in BOOLEAN :
         IF ok THEN /\ \E l \in Listings :
                         /\ todo' = l /\ listing' = l
                         /\ unseen' = Unseen(config, l)
                    /\ hook_pc' = "sm_file"
                    /\ UNCHANGED exc
         ELSE /\ UNCHANGED << todo, unseen, listing >>
              /\ hook_pc' = "raised"
              /\ exc' = Exc("requests.RequestException", BOOTSTRAP)
    /\ UNCHANGED << config, configFile, main_pc, event, eventLog, gdVars,
                    adb_device, version_check, cdsVars, fileVars, local_pc, srvVars, pid,
                    session, loaded, eof >>

\* lines 816-859: one pass of the loop over the listing; readable: read_text
\* returns, created: create_script and load return
SmFile ==
    /\ hook_pc = "sm_file"
    /\ todo # <<>>
    /\ LET filename == Head(todo)
       IN  \E readable, created \in BOOLEAN,
              script_file \in (IF filename = BOOTSTRAP THEN BootstrapTexts
                               ELSE {OptionalText}) :
             LET res == ScriptPass(config, filename, script_file)
             IN  IF ~readable
                 THEN /\ hook_pc' = "raised"
                      /\ exc' = Exc("OSError", filename)
                      /\ UNCHANGED << config, todo, loaded >>
                 ELSE /\ config' = res.config
                      /\ IF res.key # "" \/ (res.load /\ ~created)
                         THEN /\ hook_pc' = "raised"
                              /\ exc' = IF res.key # ""
                                        THEN Exc("KeyError", res.key)
                                        ELSE Exc("frida.Error", filename)
                              /\ UNCHANGED << todo, loaded >>
                         ELSE /\ todo' = Tail(todo)
                              /\ loaded' = IF res.load
                                           THEN Append(loaded,
                                                  [name |-> filename,
                                                   source |-> res.source,
                                                   calls |-> ScriptCalls])
                                           ELSE loaded
                              /\ UNCHANGED << hook_pc, exc >>
    /\ UNCHANGED << configFile, main_pc, event, eventLog, gdVars, adb_device, version_check,
                    cdsVars, fileVars, local_pc, srvVars, pid, session, unseen, listing,
                    eof >>

\* line 860: open("w") empties the file before anything is written
SmOpen ==
    /\ hook_pc = "sm_file"
    /\ todo = <<>>
    /\ configFile' = Truncated
    /\ hook_pc' = "sm_dump"
    /\ UNCHANGED << config, main_pc, event, eventLog, gdVars, adb_device, version_check,
                    cdsVars, fileVars, local_pc, srvVars, pid, session, exc,
                    unseen, listing, eof, todo, loaded >>

\* line 861 and the close of the with statement
SmSave ==
    /\ hook_pc = "sm_dump"
    /\ configFile' = config
    /\ hook_pc' = "stdin"
    /\ UNCHANGED << config, main_pc, event, eventLog, gdVars, adb_device, version_check,
                    cdsVars, fileVars, local_pc, srvVars, pid, session, exc,
                    unseen, listing, eof, todo, loaded >>

\* The operator closes the control channel.  Only its arrival while line 776
\* is blocked is tracked: a stream closed earlier is seen by the read at once.
StdinEof ==
    /\ hook_pc = "stdin"
    /\ ~eof
    /\ eof' = TRUE
    /\ UNCHANGED << config, configFile, main_pc, event, eventLog, gdVars,
                    adb_device, version_check, cdsVars, fileVars, local_pc, srvVars, hook_pc,
                    pid, session, exc, unseen, listing, todo, loaded >>

\* a read of line 776 that gives up without end-of-stream
HookStdin_timeout ==
    /\ hook_pc = "stdin"
    /\ hook_pc' = "detach"
    /\ UNCHANGED << config, configFile, main_pc, event, eventLog, gdVars,
                    adb_device, version_check, cdsVars, fileVars, local_pc, srvVars, pid,
                    session, exc, unseen, listing, eof, todo, loaded >>

\* line 776: sys.stdin.read() returns at end-of-stream
HookStdin ==
    /\ hook_pc = "stdin"
    /\ eof
    /\ hook_pc' = "detach"
    /\ UNCHANGED << config, configFile, main_pc, event, eventLog, gdVars,
                    adb_device, version_check, cdsVars, fileVars, local_pc, srvVars, pid,
                    session, exc, unseen, listing, eof, todo, loaded >>

\* line 777 run as a finally clause, after an exception too
HookDetach_finally ==
    /\ hook_pc \in {"detach", "raised"}
    /\ session = "attached"
    /\ session' = "detached"
    /\ hook_pc' = "done"
    /\ UNCHANGED << config, configFile, main_pc, event, eventLog, gdVars,
                    adb_device, version_check, cdsVars, fileVars, local_pc, srvVars, pid, exc,
                    unseen, listing, eof, todo, loaded >>

\* line 777
HookDetach ==
    /\ hook_pc = "detach"
    /\ session' = "detached"
    /\ hook_pc' = "done"
    /\ UNCHANGED << config, configFile, main_pc, event, eventLog, gdVars,
                    adb_device, version_check, cdsVars, fileVars, local_pc, srvVars, pid, exc,
                    unseen, listing, eof, todo, loaded >>

\* The process is killed while a write of config/config.json is under way:
\* every thread that has not finished stops where it is.
Killed(pc) ==
    IF pc \in {"idle", "done", "raised", "ended"} THEN pc ELSE "killed"

Kill ==
    /\ main_pc = "dump_config" \/ hook_pc = "sm_dump"
    /\ main_pc' = Killed(main_pc)
    /\ local_pc' = Killed(local_pc)
    /\ srv_pc' = Killed(srv_pc)
    /\ hook_pc' = Killed(hook_pc)
    /\ UNCHANGED << config, configFile, event, eventLog, gdVars, adb_device,
                    version_check, cdsVars, fileVars, server_port, tunnel,
                    launched, pid, session, exc, unseen, listing, eof, todo,
                    loaded >>

MainNext ==
    \/ LoadConfig
    \/ CheckUpdates
    \/ Randomizer
    \/ AdbSetup
    \/ GdEnumerate
    \/ GdSelect
    \/ GdInput
    \/ GdConfirm
    \/ MainGotDevice
    \/ CdsNetstat
    \/ CdsSleep
    \/ CdsCheckTimeout
    \/ CdsDumpsys
    \/ CdsSet
    \/ MainWaitDeviceState
    \/ MainClear
    \/ MainRoot
    \/ MainInstallCheck
    \/ InstallFrida
    \/ MainOpenConfig
    \/ MainWriteConfig
    \/ MainStartLocalServer
    \/ MainServerDefaults
    \/ MainStartFridaServer
    \/ MainWaitServer
    \/ MainStartHook

SrvNext ==
    \/ SrvWaitDevice
    \/ SrvReverse
    \/ SrvSet
    \/ SrvLaunch

HookNext ==
    \/ HookGetDevice
    \/ HookSpawn
    \/ HookAttach
    \/ SmList
    \/ SmFile
    \/ SmOpen
    \/ SmSave
    \/ HookStdin
    \/ HookDetach

Next ==
    \/ MainNext
    \/ LocalServer
    \/ SrvNext
    \/ HookNext
    \/ StdinEof
    \/ Kill

Spec == Init /\ [][Next]_vars

\* The main thread is the only runnable thread until it starts another one,
\* and the operating system keeps running it.
FairSpec == Spec /\ WF_vars(MainNext)

\* Every started thread is a runnable operating-system thread: each of them
\* keeps being scheduled while it has a step to take.
FairThreads ==
    /\ Spec
    /\ WF_vars(MainNext)
    /\ WF_vars(LocalServer)
    /\ WF_vars(SrvNext)
    /\ WF_vars(HookNext)

(***************************************************************************)
(* Properties.                                                             *)
(***************************************************************************)
Monitor == "check_device_state"
Runner == "start_frida_server"
LoadedNames == { loaded[i].name : i \in 1..Len(loaded) }

\* the configured default serial is the serial of one of the devices ds
DefaultMatches(c, ds) ==
    /\ Has(c, "userConfig")
    /\ Has(c["userConfig"], "defaultDevice")
    /\ \E i \in 1..Len(ds) : ds[i] = c["userConfig"]["defaultDevice"]

\* the upper-case form of a letter of "yes"
Upper(ch) ==
    CASE ch = "y" -> "Y"
      [] ch = "e" -> "E"
      [] ch = "s" -> "S"
      [] OTHER -> ch

\* C1: the frida-server binary has been started on the device before the
\* main thread is released from its second wait, and before the session
\* thread spawns the target process or attaches to it.
C1_ServerStartedBeforeSession ==
    /\ main_pc \in {"sleep", "done"} => launched
    /\ (pid # 0 \/ session # "none") => launched

\* C2: a filename other than _.js that scriptConfig did not hold when the
\* directory was listed is never loaded, the load pass does not fail on it,
\* and once the pass is over the persisted document holds it with value false.
C2_UnseenRegisteredFalse ==
    /\ unseen \cap LoadedNames = {}
    /\ ~(hook_pc = "raised" /\ exc.type = "KeyError" /\ exc.arg \in unseen)
    /\ hook_pc \in {"stdin", "detach", "done"} =>
         \A f \in unseen :
            /\ Has(configFile, "scriptConfig")
            /\ Has(configFile["scriptConfig"], f)
            /\ configFile["scriptConfig"][f] = FALSE

\* C3: whichever of the server and userConfig keys the bootstrap script needs
\* are absent, script_manager raises no KeyError for them, and once _.js is
\* loaded the configuration holds all five keys.
C3_BootstrapDefaultsNoError ==
    /\ ~(/\ hook_pc = "raised"
         /\ exc.type = "KeyError"
         /\ exc.arg \in {"server", "userConfig"})
    /\ BOOTSTRAP \in LoadedNames =>
         /\ {"host", "port", "noProxy"} \subseteq DOMAIN config["server"]
         /\ {"activityMinStartTs", "activityMaxStartTs"}
               \subseteq DOMAIN config["userConfig"]

\* C4: when get_device returns with more than one device enumerated, then
\* unless it returned without a prompt on a default that is the serial of an
\* enumerated device, the list was shown, input was read, and the device
\* returned is the one at the index the operator typed.
C4_PromptUnlessDefaultMatches ==
    (/\ main_pc = "gd_return"
     /\ Len(devices) > 1
     /\ ~(inputReads = 0 /\ DefaultMatches(config, devices)))
    => /\ listShown
       /\ inputReads > 0
       /\ gd_result = devices[IntVal(inp)]

\* C5: the step of get_device that inspects the enumeration returns at once,
\* with no list shown and no input read, (a) the only device when one device
\* is enumerated and (b) the device whose serial is the configured default
\* when several are enumerated and one of them has that serial.
C5_NoPromptCases ==
    [][(main_pc = "gd_select" /\ main_pc' # "gd_select") =>
        /\ Len(devices) = 1 =>
             /\ main_pc' = "gd_return"
             /\ gd_result' = devices[1]
             /\ inputReads' = 0 /\ ~listShown'
        /\ (Len(devices) > 1 /\ DefaultMatches(config, devices)) =>
             /\ main_pc' = "gd_return"
             /\ gd_result' = config["userConfig"]["defaultDevice"]
             /\ inputReads' = 0 /\ ~listShown']_vars

C5_Witness ==
    /\ main_pc = "gd_return"
    /\ Len(devices) > 1
    /\ inputReads = 0 /\ ~listShown
    /\ DefaultMatches(config, devices)
    /\ gd_result = devices[2]

\* C6: in the selection loop every line that is not a number, and every
\* number outside 1..N, leads to a re-prompt with no device returned; the
\* first line that is a number k in 1..N ends the loop, and the device
\* returned is the k-th of the list.
C6_SelectionLoop ==
    /\ [][(main_pc = "gd_input" /\ inputReads' = inputReads + 1) =>
            IF IntRaises(inp') \/ IntVal(inp') < 1 \/ IntVal(inp') > Len(devices)
            THEN main_pc' = "gd_input" /\ gd_result' = NoDevice
            ELSE main_pc' = "gd_confirm" /\ gd_result' = NoDevice]_vars
    /\ [](main_pc = "gd_return" /\ inputReads > 0 =>
            gd_result = devices[IntVal(inp)])

C6_Witness ==
    /\ main_pc = "gd_return"
    /\ inputReads = 4
    /\ inp = <<"2">>
    /\ gd_result = devices[2]

\* C7: check_device_state issues the reboot exactly when the netstat table
\* holds one of system_server, ntp_server, adbd and does not hold
\* frida-server; otherwise it goes straight to event.set() with no sleep and
\* no dumpsys invocation.
C7_RebootIffInconsistent ==
    /\ [][(main_pc = "check_device_state" /\ main_pc' # "raised") =>
            LET ns == netstat_tulpn'
                bad == /\ ns \cap {"system_server", "ntp_server", "adbd"} # {}
                       /\ "frida-server" \notin ns
            IN  /\ rebooted' <=> bad
                /\ bad => main_pc' = "cds_sleep"
                /\ ~bad => /\ main_pc' = "cds_set"
                           /\ now' = 0 /\ connectivity' = Unbound /\ ~caught'
                           /\ ~event']_vars
    /\ [][(main_pc = "cds_set" /\ ~rebooted) =>
            /\ main_pc' = "wait_device_state"
            /\ event'
            /\ now' = 0 /\ connectivity' = Unbound /\ ~caught']_vars

C7_Witness ==
    /\ main_pc = "cds_sleep"
    /\ rebooted
    /\ netstat_tulpn = {"adbd"}

\* C8: on the reboot path the monitor reaches event.set() only after a dump
\* that matched with a non-empty token or after the timeout has passed (at
\* most one slow dump late), a matching dump ends the poll at once, the
\* timeout never raises, the event is set exactly once, and the main thread
\* always gets past its wait.
C8_SoftTimeout ==
    /\ [](main_pc = "cds_set" /\ rebooted =>
            \/ connectivity.matched /\ connectivity.group # ""
            \/ now > reboot_timeout /\ now <= reboot_timeout + SlowDump)
    /\ [](main_pc = "wait_device_state" =>
            event /\ eventLog = << Monitor >>)
    /\ [][main_pc = "cds_loop" => main_pc' \in {"cds_loop", "cds_dumpsys", "cds_set"}]_vars
    /\ [][(/\ main_pc = "cds_dumpsys"
           /\ connectivity'.matched
           /\ connectivity'.group # "") => main_pc' = "cds_set"]_vars
    /\ (main_pc = "cds_sleep") ~> (main_pc = "clear")

C8_Witness ==
    /\ main_pc = "wait_device_state"
    /\ rebooted
    /\ event
    /\ now > reboot_timeout
    /\ ~connectivity.matched

\* C9: a dumpsys invocation that fails leaves the monitor in its poll loop
\* with nothing else changed, the next step of the loop is the timeout check,
\* and the event is still set afterwards.
C9_DumpFailureTolerated ==
    /\ [][(main_pc = "cds_dumpsys" /\ caught') =>
            /\ main_pc' = "cds_loop"
            /\ UNCHANGED << event, eventLog, rebooted, reboot_timeout,
                            connectivity >>]_vars
    /\ [][(main_pc = "cds_loop" /\ caught) =>
            main_pc' = IF now > reboot_timeout THEN "cds_set"
                       ELSE "cds_dumpsys"]_vars
    /\ (main_pc = "cds_loop" /\ caught)
          ~> (main_pc = "wait_device_state" /\ event)

C9_Witness ==
    /\ main_pc = "wait_device_state"
    /\ rebooted
    /\ caught
    /\ connectivity = Unbound
    /\ event

C11_InstallIdempotent ==
    /\ [][main_pc = "install_check" /\ marker'
            => /\ main_pc' = "write_config"
               /\ install' = NotInstalled
               /\ UNCHANGED << xz, plain >>]_vars
    /\ [][install' # install => main_pc = "install_frida" /\ ~marker]_vars
    /\ [](install.steps # <<>> /\ install.failed = ""
            => /\ marker /\ xz /\ ~plain
               /\ InstallSkipped(marker))

C11_Witness ==
    /\ main_pc = "start_local_server"
    /\ install.steps = <<"getprop", "metadata", "download", "lzma", "push",
                         "chmod", "unlink">>
    /\ install.failed = ""
    /\ marker

\* C12: a failing network request or a failing decompression inside
\* install_frida ends main with the exception; install_frida is not run
\* again, and no thread is started, no reverse tunnel set up, no process
\* spawned and no script loaded in such a run.
C12_InstallFailureFatal ==
    /\ [](install.failed \in InstallFailures
            => /\ main_pc = "raised"
               /\ local_pc = "idle" /\ srv_pc = "idle" /\ hook_pc = "idle"
               /\ tunnel = 0 /\ ~launched /\ pid = 0 /\ loaded = <<>>)
    /\ [][install.failed # "" => install' = install]_vars

C12_Witness ==
    /\ install.failed = "status"
    /\ install.steps = <<"getprop", "metadata", "download", "lzma">>
    /\ main_pc = "raised"


ListedNames == { listing[i] : i \in 1..Len(listing) }

\* the files of the listing, other than _.js, that scriptConfig maps to true
EnabledNames ==
    { f \in ListedNames \ {BOOTSTRAP} :
        /\ Has(config, "scriptConfig")
        /\ Has(config["scriptConfig"], f)
        /\ config["scriptConfig"][f] = TRUE }

\* C13: at every moment the scripts loaded, other than _.js, are files that
\* scriptConfig maps to true and that were not unseen, each loaded once; and
\* when the load pass has completed, the scripts loaded are exactly _.js,
\* whatever scriptConfig holds for it, and the listed files mapped to true.
C13_LoadedExactlyEnabled ==
    /\ LoadedNames \ {BOOTSTRAP} \subseteq EnabledNames \ unseen
    /\ Len(loaded) = Cardinality(LoadedNames)
    /\ hook_pc \in {"stdin", "detach", "done"}
         => LoadedNames = {BOOTSTRAP} \cup EnabledNames

\* a completed pass over a.js, enabled, and _.js, registered as false
C13_Witness ==
    /\ hook_pc = "stdin"
    /\ listing = <<"a.js", BOOTSTRAP>>
    /\ LoadedNames = {"a.js", BOOTSTRAP}
    /\ config["scriptConfig"][BOOTSTRAP] = FALSE

\* C14: the session is detached only once the read of standard input has
\* reached end-of-stream: the thread leaves the read only from the read and
\* with end-of-stream reached, session.detach is called only from there, and
\* a detached session implies end-of-stream was reached.
C14_DetachOnlyAfterEof ==
    /\ [](session = "detached" => eof /\ hook_pc = "done")
    /\ [](hook_pc \in {"detach", "done"} => eof)
    /\ [][hook_pc' = "detach" /\ hook_pc # "detach"
            => hook_pc = "stdin" /\ eof]_vars
    /\ [][session' = "detached" /\ session # "detached"
            => hook_pc = "detach" /\ session = "attached"]_vars

C14_Witness ==
    /\ session = "detached"
    /\ eof
    /\ hook_pc = "done"

\* C15: when a request of the version check has timed out, check_updates has
\* made a second pass of its request loop (one retry) before it goes on.
C15_TimeoutRetriedOnce ==
    version_check.timeouts > 0 => version_check.passes = 2

\* C16: once check_updates has returned, and before device selection or any
\* later stage begins, config/config.json holds the version stamps and the
\* network configuration that check_updates left in the document.
C16_PersistedAfterCheckUpdates ==
    main_pc \in {"randomizer", "adb_setup", "get_device"}
        => /\ Has(configFile, "version")
           /\ configFile["version"] = config["version"]
           /\ Has(configFile, "networkConfig")
           /\ configFile["networkConfig"] = config["networkConfig"]

\* the main thread has yet to read, mutate or write the configuration
\* (lines 133-189)
MainUsesConfig == main_pc \notin {"wait_server", "sleep", "done", "raised"}

\* the session thread is inside script_manager (lines 807-861)
HookUsesConfig == hook_pc \in {"script_manager", "sm_file", "sm_dump"}

\* C17: the configuration has no concurrent writers.  The session thread is
\* inside script_manager only when the main thread has made its last access
\* to the configuration, and every change of the in-memory document or of
\* config/config.json is a step of the main thread or of the session thread,
\* never of the local-server thread or of the server-runner thread.
C17_NoConcurrentWriters ==
    /\ [](~(MainUsesConfig /\ HookUsesConfig))
    /\ [][config' # config \/ configFile' # configFile
            => /\ local_pc' = local_pc /\ srv_pc' = srv_pc
               /\ \/ MainUsesConfig /\ main_pc' # main_pc /\ hook_pc = "idle"
                  \/ HookUsesConfig /\ hook_pc' = hook_pc /\ todo' # todo
                  \/ HookUsesConfig /\ hook_pc' # hook_pc]_vars

\* the session thread has changed the document while the server-runner
\* thread is still running and the main thread has finished
C17_Witness ==
    /\ hook_pc = "sm_file"
    /\ config # configFile
    /\ main_pc = "done"
    /\ srv_pc = "launch"
    /\ local_pc = "started"

\* C18: after the process has been killed, config/config.json holds a
\* complete document (the previous one or the new one), never a truncated one.
C18_CrashNeverCorrupts ==
    (main_pc = "killed" \/ hook_pc = "killed") => configFile # Truncated

\* the text holds exactly one occurrence of each of the four placeholders
OneOfEach(text) ==
    \A ph \in Placeholders :
        Cardinality({ k \in 1..Len(text) : text[k] = ph }) = 1

\* C19: when the bootstrap source passed to the session is the substitution
\* of a text with exactly one occurrence of each placeholder, no placeholder
\* is left in it, and the host placeholder has become NO_PROXY when
\* server.noProxy is true and server.host otherwise.
C19_NoPlaceholderLeft ==
    \A i \in 1..Len(loaded) : \A text \in BootstrapTexts :
        (/\ loaded[i].name = BOOTSTRAP
         /\ OneOfEach(text)
         /\ loaded[i].source = Substitute(text, config))
        => /\ \A k \in 1..Len(text) : loaded[i].source[k] \notin Placeholders
           /\ \A k \in 1..Len(text) :
                text[k] = HOST
                    => loaded[i].source[k] =
                         (IF config["server"]["noProxy"] THEN "NO_PROXY"
                          ELSE config["server"]["host"])

\* every key of every section of d is in e with the value it has in d
Keeps(d, e) ==
    \A k \in DOMAIN d :
        /\ k \in DOMAIN e
        /\ \A k2 \in DOMAIN d[k] : k2 \in DOMAIN e[k] /\ e[k][k2] = d[k][k2]

\* the keys script_manager reads are in the document
DefaultsPresent(c) ==
    /\ Has(c, "server")
    /\ {"host", "port", "noProxy"} \subseteq DOMAIN c["server"]
    /\ Has(c, "userConfig")
    /\ {"activityMinStartTs", "activityMaxStartTs"} \subseteq DOMAIN c["userConfig"]

\* C20: defaulting is complete and non-destructive.  The steps that insert
\* defaults (randomizer, get_device, main's server defaults, the loop body of
\* script_manager) remove no key and change no existing value; and once
\* script_manager has run its defaulting for a file it could read, every key
\* it reads that the document lacked is set.
C20_NonDestructiveDefaulting ==
    /\ [][(main_pc \in {"randomizer", "gd_select", "server_defaults"}
             \/ hook_pc = "sm_file") => Keeps(config, config')]_vars
    /\ []((Len(todo) < Len(listing)
             \/ (hook_pc = "raised" /\ exc.type = "KeyError"))
            => DefaultsPresent(config))

\* positions of the main thread inside get_device, inside check_device_state,
\* and from the install check to the end of main
Selecting == {"get_device", "gd_select", "gd_input", "gd_confirm", "gd_return"}
Polling ==
    {"check_device_state", "cds_sleep", "cds_loop", "cds_dumpsys", "cds_set"}
Installing ==
    {"install_check", "install_frida", "write_config", "dump_config",
     "start_local_server", "server_defaults", "start_frida_server"}

C22_SecondWaitNeedsRunner ==
    /\ [][main_pc = "start_frida_server" /\ main_pc' = "wait_server"
            => ~event /\ eventLog = << Monitor >>]_vars
    /\ [][main_pc = "wait_server" /\ main_pc' = "sleep"
            => /\ srv_pc \in {"launch", "done"}
               /\ tunnel = server_port
               /\ eventLog[Len(eventLog)] = Runner]_vars
    /\ [](hook_pc # "idle"
            => tunnel = server_port /\ eventLog = << Monitor, Runner >>)

C22_Witness ==
    /\ main_pc = "done"
    /\ hook_pc = "get_device"
    /\ srv_pc = "launch"
    /\ tunnel = server_port
    /\ eventLog = << Monitor, Runner >>

\* C23: when start_frida_server has failed before setting the event, the
\* thread stays ended, the main thread is blocked on its second wait with the
\* event clear and stays there, and the session thread is never started: no
\* process is spawned and no script is loaded.
C23_RunnerFailureStallsMain ==
    /\ [](srv_pc = "raised"
            => /\ main_pc = "wait_server" /\ ~event
               /\ tunnel = 0 /\ ~launched
               /\ hook_pc = "idle" /\ pid = 0 /\ session = "none"
               /\ loaded = <<>>)
    /\ [][srv_pc = "raised"
            => srv_pc' = "raised" /\ main_pc' = main_pc /\ event' = event]_vars

C23_Witness ==
    /\ srv_pc = "raised"
    /\ main_pc = "wait_server"
    /\ eventLog = << Monitor >>
    /\ ~event

\* C24: the enumeration loop of get_device.  A cycle whose enumeration is
\* empty is counted and leaves get_device where it is: nothing is returned,
\* nothing is raised; the loop is left only with a non-empty enumeration; and
\* while the main thread is in the loop no later stage has started.
C24_EnumerationLoop ==
    /\ [][main_pc = "get_device"
            => \/ /\ main_pc' = "get_device"
                  /\ retries' = retries + 1
                  /\ devices' = <<>> /\ gd_result' = NoDevice
               \/ /\ main_pc' = "gd_select"
                  /\ devices' # <<>>]_vars
    /\ [](main_pc = "get_device"
            => /\ devices = <<>> /\ gd_result = NoDevice
               /\ adb_device = NoDevice /\ eventLog = <<>>
               /\ local_pc = "idle" /\ srv_pc = "idle" /\ hook_pc = "idle")

C24_Witness ==
    /\ main_pc = "get_device"
    /\ retries = MaxRetries
    /\ devices = <<>>

\* the document has a userConfig.defaultDevice key
HadDefault(c) == Has(c, "userConfig") /\ Has(c["userConfig"], "defaultDevice")

\* d holds the defaultDevice of c, or None when c has none
DefaultAfter(c, d) ==
    d["userConfig"]["defaultDevice"] =
        (IF HadDefault(c) THEN c["userConfig"]["defaultDevice"] ELSE None)

\* C25: what get_device does to the configuration.  At the confirmation
\* prompt the answers y and yes, in any letter case, set
\* userConfig.defaultDevice to the serial of the device selected, and every
\* other answer leaves the document as it is; the only other change
\* get_device makes is to insert an absent userConfig section or an absent
\* defaultDevice key when several devices are enumerated, which removes no key
\* and changes no existing value.
C25_DefaultDeviceFrame ==
    /\ [][main_pc = "gd_confirm" /\ main_pc' = "gd_return"
            => IF \E w \in { <<"y">>, <<"y", "e", "s">> } :
                    /\ Len(answer') = Len(w)
                    /\ \A k \in 1..Len(w) : answer'[k] \in {w[k], Upper(w[k])}
               THEN config' = Put2(config, "userConfig", "defaultDevice",
                                   gd_result')
                    /\ gd_result' = devices[selected_device + 1]
               ELSE config' = config]_vars
    /\ [][(main_pc \in Selecting /\ main_pc # "gd_confirm" /\ config' # config)
            => /\ main_pc = "gd_select" /\ Len(devices) > 1
               /\ Keeps(config, config')
               /\ (DOMAIN config') \ (DOMAIN config) \subseteq {"userConfig"}
               /\ DefaultAfter(config, config')]_vars

\* the operator answered "Yes" and the second device became the default
C25_Witness ==
    /\ main_pc = "gd_return"
    /\ answer = <<"Y", "e", "s">>
    /\ gd_result = devices[2]
    /\ config["userConfig"]["defaultDevice"] = devices[2]

\* position of the first call by that name made on a script, 0 when none
FirstCall(script, call) ==
    IF \E k \in 1..Len(script.calls) : script.calls[k].call = call
    THEN CHOOSE k \in 1..Len(script.calls) :
            /\ script.calls[k].call = call
            /\ \A j \in 1..(k - 1) : script.calls[j].call # call
    ELSE 0

\* the callbacks registered on a script before its load() call
SinksAtLoad(script) ==
    { script.calls[k].arg : k \in { j \in 1..(FirstCall(script, "load") - 1) :
                                      script.calls[j].call = "on" } }

\* C26: every script that script_manager has loaded had the callback
\* on_message, and no other, registered on it before its load() call, so a
\* message of a loaded script always finds its sink; all loaded scripts share
\* that one callback.
C26_SinkBeforeLoad ==
    \A i \in 1..Len(loaded) :
        /\ FirstCall(loaded[i], "load") > 0
        /\ SinksAtLoad(loaded[i]) = {on_message}

C26_Witness ==
    /\ Len(loaded) = 2
    /\ loaded[1].name # loaded[2].name
    /\ \A i \in 1..2 : SinksAtLoad(loaded[i]) = {on_message}

\* Something outside the program went wrong: a command or a request failed
\* or timed out, or the process was killed.  A main thread that raised is
\* counted here whatever made it raise.
ExternalFailure ==
    \/ main_pc \in {"raised", "killed"}
    \/ srv_pc \in {"raised", "killed"}
    \/ hook_pc = "killed"
    \/ hook_pc = "raised" /\ exc.type # "KeyError"
    \/ caught
    \/ version_check.timeouts > 0
    \/ install.failed # ""

\* _.js is loaded into an attached session and line 776 is reached
BroughtUp ==
    /\ hook_pc = "stdin"
    /\ session = "attached"
    /\ BOOTSTRAP \in LoadedNames

\* C27: whatever config/config.json held, a run in which get_device is not
\* left waiting for ever for a device or for valid input, and in which nothing
\* outside the program fails, loads _.js into an attached session and
\* reaches the blocking read of line 776.
C27_BringUpLive ==
    \/ <>BroughtUp
    \/ <>ExternalFailure
    \/ <>[](main_pc \in Selecting)

\* script_manager is running its load pass, lines 807-859
InLoadPass == hook_pc \in {"script_manager", "sm_file"}

\* the exception that ended start_frida_hook came out of script_manager
SmRaised ==
    /\ hook_pc = "raised"
    /\ exc.arg \notin {"get_device", "spawn", "attach"}

\* C28: a load pass that raises writes nothing to config/config.json, which
\* keeps the document the main thread wrote; the scripts loaded before the
\* failure stay loaded in the attached session; start_frida_hook then stays
\* where the exception left it, without reading stdin or detaching.
C28_RaiseMidPass ==
    /\ [][InLoadPass /\ hook_pc' # "sm_dump" => configFile' = configFile]_vars
    /\ [][InLoadPass /\ hook_pc' = "raised"
            => loaded' = loaded /\ session' = session]_vars
    /\ [][SmRaised => UNCHANGED << hook_pc, session, loaded, configFile >>]_vars
    /\ [](SmRaised => session = "attached")

C28_Witness ==
    /\ SmRaised
    /\ LoadedNames = {BOOTSTRAP}
    /\ session = "attached"
    /\ Has(config, "scriptConfig") /\ Has(config["scriptConfig"], BOOTSTRAP)
    /\ Has(configFile, "scriptConfig")
    /\ ~Has(configFile["scriptConfig"], BOOTSTRAP)

\* the document has a server.port key
HasPort(c) == Has(c, "server") /\ Has(c["server"], "port")

\* the text after the replacement of lines 831-835
AfterHost(text, c) ==
    Replace1(text, HOST,
             IF c["server"]["noProxy"] THEN "NO_PROXY" ELSE c["server"]["host"])

\* the tokens that the replacement of lines 836-840 put into source, which
\* was made from text
PortsWritten(text, source, c) ==
    { source[k] : k \in { j \in 1..Len(text) :
                            /\ AfterHost(text, c)[j] = PORT
                            /\ Replace1(AfterHost(text, c), PORT, "")[j] = "" } }

\* C29: the port of the reverse tunnel is the port written in place of the
\* port placeholder of _.js; main puts 8443 into a document without
\* server.port before the server runner and script_manager read it, so both
\* use 8443 then and the 8080 of script_manager is never used.
C29_TunnelPortIsScriptPort ==
    /\ [](\A i \in 1..Len(loaded) : \A text \in BootstrapTexts :
            (/\ loaded[i].name = BOOTSTRAP
             /\ loaded[i].source = Substitute(text, config))
            => /\ tunnel # 0
               /\ PortsWritten(text, loaded[i].source, config) = {Str(tunnel)})
    /\ [](tunnel # 0 => HasPort(config) /\ config["server"]["port"] = tunnel)
    /\ [][main_pc = "server_defaults" /\ main_pc' = "start_frida_server"
            => config'["server"]["port"] =
                  (IF HasPort(config) THEN config["server"]["port"]
                   ELSE MainDefaultPort)]_vars
    /\ [][hook_pc = "sm_file" /\ HasPort(config')
            => HasPort(config) /\ config'["server"]["port"] = tunnel]_vars
    /\ [](tunnel # ScriptDefaultPort)

C29_Witness ==
    /\ BOOTSTRAP \in LoadedNames
    /\ tunnel = MainDefaultPort
    /\ \E i \in 1..Len(loaded) :
          \E k \in 1..Len(loaded[i].source) : loaded[i].source[k] = "8443"

\* C30: on the reboot path a dump that was obtained ends the poll, as
\* 'Device ready', exactly when the pattern matched in it with a non-empty
\* token, whatever the token is; a dump with no match or with an empty token
\* sends the monitor back to the head of the loop.
C30_AnyStatusEndsPoll ==
    [][(/\ main_pc = "cds_dumpsys"
        /\ main_pc' \in {"cds_set", "cds_loop"}
        /\ ~caught')
       => /\ rebooted
          /\ \E dumpsys \in Dumps : connectivity' = RegexSearch(dumpsys)
          /\ main_pc' = "cds_set"
                <=> (connectivity'.matched /\ connectivity'.group # "")
          /\ main_pc' = "cds_loop"
                <=> (~connectivity'.matched \/ connectivity'.group = "")]_vars

C30_Witness ==
    /\ main_pc = "cds_set"
    /\ rebooted
    /\ now <= reboot_timeout
    /\ connectivity = [matched |-> TRUE, group |-> "DISCONNECTED/DISCONNECTED"]

====
